---- MODULE Spec2Model ----
(***************************************************************************)
(* Model of the EDT Unicaen timetable resolution pipeline                   *)
(* (src/utils.py, src/index.py, src/tools.py).                              *)
(*                                                                         *)
(* Representation:                                                          *)
(*  - a Python str is a sequence of one-character strings; the Python       *)
(*    value None of a str-typed slot is the sentinel NoneStr;               *)
(*  - a datetime is a record [tz, t]: t its time slot (0..MaxT are today's) *)
(*    and tz "naive", "aware" (it carries a UTC offset) or "none" (the      *)
(*    Python value None of a datetime-typed slot);                          *)
(*  - a Python call either returns or raises: operators that can raise      *)
(*    return a record [exc |-> BOOLEAN, val |-> ...].                       *)
(***************************************************************************)
EXTENDS Integers, Sequences, FiniteSets, TLC

\* ------------------------------------------------------------------ bounds
\* Time slots of the day are 0..MaxT.
MaxT == 2
\* Largest number of event records in one fetched document.
MaxEvents == 2

\* --------------------------------------------------------------- Python str
NoneStr == <<"<None>">>

WhiteSpace == {" "}

\* str.lower() on one character
LowerChar(c) ==
  CASE c = "A" -> "a"
    [] c = "B" -> "b"
    [] c = "M" -> "m"
    [] c = "E" -> "e"
    [] OTHER -> c

\* str.lower()
Lower(s) == [i \in 1..Len(s) |-> LowerChar(s[i])]

RECURSIVE LStrip(_)
LStrip(s) ==
  IF s # <<>> /\ Head(s) \in WhiteSpace THEN LStrip(Tail(s)) ELSE s

RECURSIVE RStrip(_)
RStrip(s) ==
  IF s # <<>> /\ s[Len(s)] \in WhiteSpace THEN RStrip(SubSeq(s, 1, Len(s) - 1)) ELSE s

\* str.strip()
Strip(s) == RStrip(LStrip(s))

\* Python `needle in hay` on two str values
Contains(needle, hay) ==
  \E i \in 0..(Len(hay) - Len(needle)) : SubSeq(hay, i + 1, i + Len(needle)) = needle

\* Python `x or ""` on a str-or-None value
OrEmpty(s) == IF s = NoneStr THEN <<>> ELSE s

\* ------------------------------------------------------- directory (utils)
NoneId == -1

VARIABLES
  prof_data, student_data, salle_data, univ_data,   \* the four collections
  op, nom, start, end, header, env,                 \* the call and its inputs
  pc, matches, entry, date, url, content, events, now,  \* the call's locals
  answer, fetches, trace,                           \* result, fetch count, stages run
  parked                                            \* the locals of the other calls in progress

dirvars == <<prof_data, student_data, salle_data, univ_data>>
vars == <<prof_data, student_data, salle_data, univ_data,
          op, nom, start, end, header, env, pc, matches, entry, date, url,
          content, events, now, answer, fetches, trace, parked>>

\* One result descriptor of find_entries_by_name (stored project ids are
\* numeric, so int() leaves them as they are; None stays None)
Descriptor(typ, desc, adeUniv, adeResources, adeProjectId) ==
  [type |-> typ, desc |-> desc, adeUniv |-> adeUniv,
   adeResources |-> adeResources, adeProjectId |-> adeProjectId]

\* check_list(items, "descTT", typ): the matches of one collection, in order
RECURSIVE check_list(_, _, _)
check_list(items, name_l, typ) ==
  IF items = <<>> THEN <<>>
  ELSE LET it == Head(items)
           desc == Strip(OrEmpty(it.descTT))
           hit == desc # <<>> /\ Contains(name_l, Lower(desc))
       IN (IF hit
           THEN <<Descriptor(typ, desc, it.adeUniv, it.adeResources, it.adeProjectId)>>
           ELSE <<>>) \o check_list(Tail(items), name_l, typ)

\* the inner loop over u["timetable"]
RECURSIVE check_timetable(_, _, _)
check_timetable(tts, name_l, u) ==
  IF tts = <<>> THEN <<>>
  ELSE LET t == Head(tts)
           hit == Contains(name_l, Lower(OrEmpty(t.descTT)))
       IN (IF hit
           THEN <<Descriptor("univ-timetable", t.descTT, u.adeUniv,
                             t.adeResources, t.adeProjectId)>>
           ELSE <<>>) \o check_timetable(Tail(tts), name_l, u)

\* the loop over _univ_data
RECURSIVE check_univ(_, _)
check_univ(univs, name_l) ==
  IF univs = <<>> THEN <<>>
  ELSE LET u == Head(univs)
           hit == Contains(name_l, Lower(OrEmpty(u.nameUniv)))
       IN (IF hit
           THEN <<Descriptor("univ", u.nameUniv, u.adeUniv, NoneId, NoneId)>>
           ELSE <<>>)
          \o check_timetable(u.timetable, name_l, u)
          \o check_univ(Tail(univs), name_l)

\* find_entries_by_name scanning the rooms before the students
find_entries_by_name_RoomsFirst(name) ==
  IF name = NoneStr
  THEN [exc |-> TRUE, val |-> <<>>]
  ELSE LET name_l == Lower(name)
       IN [exc |-> FALSE,
           val |-> check_list(prof_data, name_l, "prof")
                   \o check_list(salle_data, name_l, "salle")
                   \o check_list(student_data, name_l, "student")
                   \o check_univ(univ_data, name_l)]

\* find_entries_by_name(name); name.lower() raises AttributeError on None
find_entries_by_name(name) ==
  IF name = NoneStr
  THEN [exc |-> TRUE, val |-> <<>>]
  ELSE LET name_l == Lower(name)
       IN [exc |-> FALSE,
           val |-> check_list(prof_data, name_l, "prof")
                   \o check_list(student_data, name_l, "student")
                   \o check_list(salle_data, name_l, "salle")
                   \o check_univ(univ_data, name_l)]

\* a professor, student, room or sub-timetable entry as stored
Entry(d, id, proj) ==
  [descTT |-> d, adeUniv |-> 0, adeResources |-> id, adeProjectId |-> proj]

\* the locals of a call that has not started
NoEntry == Descriptor("none", <<>>, NoneId, NoneId, NoneId)
NoMatches == [exc |-> FALSE, val |-> <<>>]

\* ------------------------------------------------------- Python datetimes
\* A datetime is [tz, t]: t the slot (slots 0..MaxT are today's), tz "naive",
\* "aware" (carries a UTC offset) or "none" (the Python value None).
Naive(t) == [tz |-> "naive", t |-> t]
Aware(t) == [tz |-> "aware", t |-> t]
NoneDT == [tz |-> "none", t |-> 0]

Times == 0..MaxT
SlotsPerDay == MaxT + 1

\* datetime.datetime.min and datetime.datetime.max (both naive)
DTMin == Naive(0 - 1)
DTMax == Naive(3 * SlotsPerDay)

\* an ordering comparison of a naive with an aware datetime raises TypeError
Mixed(a, b) == a.tz # b.tz

\* A timestamp string is [fmt, t]: the text format it is written in and the
\* slot it denotes.  fmt "none" is the Python value None (key absent).
Tok(f, t) == [fmt |-> f, t |-> t]
NoneTok == Tok("none", 0)

\* datetime.isoformat()
isoformat(dt) == Tok(IF dt.tz = "aware" THEN "offset" ELSE "iso", dt.t)

\* datetime.datetime.fromisoformat(s); NoneDT stands for the ValueError.
\* "iso" is YYYY-MM-DDTHH:MM[:SS], "offset" the same followed by +HH:MM,
\* "date10" the bare date YYYY-MM-DD of day t, read as that day's midnight.
\* (The compact spellings, YYYYMMDD and a trailing Z among them, are accepted
\* from Python 3.11 on and rejected before; they are not fed to this
\* operator.)
fromisoformat(tok) ==
  CASE tok.fmt = "iso" -> Naive(tok.t)
    [] tok.fmt = "offset" -> Aware(tok.t)
    [] tok.fmt = "date10" -> Naive(tok.t * SlotsPerDay)
    [] OTHER -> NoneDT

\* the timestamp parse of the structured feed: strptime with "%Y%m%dT%H%M%S",
\* then "%Y%m%dT%H%M", then fromisoformat; NoneDT when all three fail
json_time(tok) ==
  CASE tok.fmt \in {"sec", "min"} -> Naive(tok.t)
    [] OTHER -> fromisoformat(tok)

\* the timestamp parse of the calendar format: a value ending in Z is read
\* with "%Y%m%dT%H%M%SZ" (Z a literal), otherwise "%Y%m%dT%H%M%S" then
\* "%Y%m%dT%H%M"; NoneDT when it fails
ics_time(tok) ==
  CASE tok.fmt \in {"z", "sec", "min"} -> Naive(tok.t)
    [] OTHER -> NoneDT

\* ------------------------------------------------------ fetched documents
\* A response text is [kind, days, blocks]:
\*   kind "json"       a JSON object: days is its items in order, each
\*                     [key, recs] with key the day of the date-string key
\*   kind "json_other" valid JSON that is not an object (a list, a number)
\*   kind "ics"        calendar text: blocks are its VEVENT blocks
\*   kind "text"       neither
\* An event record or block is [DTSTART, DTEND, SUMMARY].
Doc(k, days, blocks) == [kind |-> k, days |-> days, blocks |-> blocks]
Rec(s, e, sum) == [DTSTART |-> s, DTEND |-> e, SUMMARY |-> sum]
Event(s, e, sum) == [start |-> s, end |-> e, summary |-> sum]

Today == 0
NoDay == 0 - 1

\* an element of a content list that is not a JSON object (null, a number, a
\* string): ev.get raises AttributeError on it
NonDict == [nondict |-> TRUE]

\* the loop over one day's content list in parse_update_json_events; a record
\* without DTSTART or whose DTSTART no format reads is skipped
RECURSIVE json_content_events(_)
json_content_events(recs) ==
  IF recs = <<>> THEN <<>>
  ELSE LET ev == Head(recs)
           dt == json_time(ev.DTSTART)
           dtend == IF ev.DTEND.fmt = "none" THEN NoneDT ELSE json_time(ev.DTEND)
       IN (IF ev = NonDict THEN <<>>
           ELSE IF ev.DTSTART.fmt = "none" \/ dt = NoneDT
           THEN <<>>
           ELSE <<Event(dt, dtend, ev.SUMMARY)>>) \o json_content_events(Tail(recs))

\* the loop over data.items() in parse_update_json_events
RECURSIVE json_days_events(_, _)
json_days_events(days, only_date) ==
  IF days = <<>> THEN <<>>
  ELSE (IF only_date # NoDay /\ Head(days).key # only_date
        THEN <<>>
        ELSE json_content_events(Head(days).recs))
       \o json_days_events(Tail(days), only_date)

\* some content list that the loop scans holds an element that is not an object
json_days_raises(days, only_date) ==
  \E d \in 1..Len(days) :
     /\ only_date = NoDay \/ days[d].key = only_date
     /\ \E i \in 1..Len(days[d].recs) : days[d].recs[i] = NonDict

\* parse_update_json_events(json_text, only_date): json.loads failing gives [];
\* data.items() raises AttributeError when the JSON value is not an object,
\* ev.get when a content element is not an object
parse_update_json_events(doc, only_date) ==
  CASE doc.kind = "json" ->
         IF json_days_raises(doc.days, only_date)
         THEN [exc |-> TRUE, val |-> <<>>]
         ELSE [exc |-> FALSE, val |-> json_days_events(doc.days, only_date)]
    [] doc.kind = "json_other" -> [exc |-> TRUE, val |-> <<>>]
    [] OTHER -> [exc |-> FALSE, val |-> <<>>]

\* parse_ics_events(ics_text): blocks without a parseable timed DTSTART are
\* skipped (all-day values, fmt "date8", among them)
RECURSIVE ics_block_events(_)
ics_block_events(blocks) ==
  IF blocks = <<>> THEN <<>>
  ELSE LET b == Head(blocks)
           dt1 == ics_time(b.DTSTART)
           dt2 == IF b.DTEND.fmt = "none" THEN NoneDT ELSE ics_time(b.DTEND)
       IN (IF dt1 = NoneDT THEN <<>> ELSE <<Event(dt1, dt2, b.SUMMARY)>>)
          \o ics_block_events(Tail(blocks))

parse_ics_events(doc) ==
  IF doc.kind = "ics" THEN ics_block_events(doc.blocks) ELSE <<>>

\* ------------------------------------------------------------ window bounds
\* parse_limit_to_datetime reading a string it cannot parse as today's
\* midnight instead of None
parse_limit_to_datetime_BadAsMidnight(value) ==
  CASE value.fmt \in {"none", "empty"} -> NoneDT
    [] value.fmt \in {"iso", "offset", "date10"} -> fromisoformat(value)
    [] value.fmt = "today" -> Naive(Today * SlotsPerDay)
    [] value.fmt = "tomorrow" -> Naive((Today + 1) * SlotsPerDay)
    [] value.fmt = "hm" -> Naive(Today * SlotsPerDay + value.t)
    [] OTHER -> Naive(Today * SlotsPerDay)

\* parse_limit_to_datetime(value): value is a window argument, a timestamp
\* string in one of the accepted spellings or something else
parse_limit_to_datetime(value) ==
  CASE value.fmt \in {"none", "empty"} -> NoneDT
    [] value.fmt \in {"iso", "offset", "date10"} -> fromisoformat(value)
    [] value.fmt = "today" -> Naive(Today * SlotsPerDay)
    [] value.fmt = "tomorrow" -> Naive((Today + 1) * SlotsPerDay)
    [] value.fmt = "hm" -> Naive(Today * SlotsPerDay + value.t)
    [] OTHER -> NoneDT

\* ---------------------------------------------------------------- URL, fetch
\* A datetime.date is [ord]: the day it denotes, Today + k; NoneDate is the
\* Python value None of the date parameter.  A "YYYY-MM-DD" string is named by
\* the day it spells (the keys of a fetched document are such strings).
Date(n) == [ord |-> n]
NoneDate == [none |-> TRUE]

\* d.strftime("%Y-%m-%d")
strftime_ymd(d) == d.ord

\* str(x) of an identifier: its decimal text
str(x) == [text |-> x]

\* The URL is the fixed update endpoint followed by the urlencoded parameters,
\* in this order; NoUrl is the Python value None.
NoUrl == [adeBase |-> NoneId, adeRessources |-> NoneId, lastUpdate |-> NoneId, date |-> NoDay]

\* build_ade_url returning None only when the project id is missing
build_ade_url_ProjectOnly(e, date_) ==
  IF e.adeProjectId = NoneId
  THEN NoUrl
  ELSE LET d == IF date_ = NoneDate THEN Date(Today) ELSE date_
       IN [adeBase |-> str(e.adeProjectId), adeRessources |-> str(e.adeResources),
           lastUpdate |-> str(0), date |-> strftime_ymd(d)]

\* build_ade_url(entry, date): None unless both identifiers are present;
\* d = date or datetime.date.today()
build_ade_url(e, date_) ==
  IF e.adeProjectId = NoneId \/ e.adeResources = NoneId
  THEN NoUrl
  ELSE LET d == IF date_ = NoneDate THEN Date(Today) ELSE date_
       IN [adeBase |-> str(e.adeProjectId), adeRessources |-> str(e.adeResources),
           lastUpdate |-> str(0), date |-> strftime_ymd(d)]

\* ------------------------------------------------------------ the reasoner
EmptyRec == [k \in {} |-> TRUE]

\* a raised exception: the call ends without an answer
Raised == [raised |-> TRUE]
NoAnswer == [pending |-> TRUE]

\* NormalizeEnds leaving a missing end as it is
NormalizeEnds_Skip(evs) == evs

\* for ev in events: if not ev.get("end"): ev["end"] = ev.get("start")
NormalizeEnds(evs) ==
  [i \in 1..Len(evs) |->
     IF evs[i].end = NoneDT THEN [evs[i] EXCEPT !.end = evs[i].start] ELSE evs[i]]

\* ongoing.sort(key=lambda e: e["end"]) followed by ongoing[0]: the sort is
\* stable, so the result is the first element in list order among those of
\* least end
FirstByEnd(seq) ==
  seq[CHOOSE i \in 1..Len(seq) :
        \A j \in 1..Len(seq) :
          /\ seq[i].end.t <= seq[j].end.t
          /\ (j < i => seq[j].end.t > seq[i].end.t)]

\* FirstByStart taking the last of the elements of least start
FirstByStart_LastTie(seq) ==
  seq[CHOOSE i \in 1..Len(seq) :
        \A j \in 1..Len(seq) :
          /\ seq[i].start.t <= seq[j].start.t
          /\ (j > i => seq[j].start.t > seq[i].start.t)]

\* future.sort(key=lambda e: e["start"]) followed by future[0]
FirstByStart(seq) ==
  seq[CHOOSE i \in 1..Len(seq) :
        \A j \in 1..Len(seq) :
          /\ seq[i].start.t <= seq[j].start.t
          /\ (j < i => seq[j].start.t > seq[i].start.t)]

\* IsOngoing with the end of the interval included
IsOngoing_Closed(e, now_) == e.start.t <= now_.t /\ now_.t <= e.end.t

\* e["start"] <= now < e["end"] (a chained comparison: the second half is
\* evaluated only when the first holds)
IsOngoing(e, now_) == e.start.t <= now_.t /\ now_.t < e.end.t
OngoingRaises(evs, now_) ==
  \E i \in 1..Len(evs) :
     \/ Mixed(evs[i].start, now_)
     \/ (evs[i].start.t <= now_.t /\ Mixed(now_, evs[i].end))

\* IsFuture with an event starting exactly now included
IsFuture_Inclusive(e, now_) == e.start.t >= now_.t

\* e["start"] > now
IsFuture(e, now_) == e.start.t > now_.t

\* resp["range_start"] / resp["range_end"], set for the bounds that parsed
RangeKeys(start_dt, end_dt) ==
  (IF start_dt # NoneDT THEN [range_start |-> isoformat(start_dt)] ELSE EmptyRec)
  @@ (IF end_dt # NoneDT THEN [range_end |-> isoformat(end_dt)] ELSE EmptyRec)

\* WindowKeeps with the window closed on both sides
WindowKeeps_Inclusive(ev_start, ev_end, win_start, win_end) ==
  ev_start.t <= win_end.t /\ ev_end.t >= win_start.t

\* ev_start < win_end and ev_end > win_start
WindowKeeps(ev_start, ev_end, win_start, win_end) ==
  ev_start.t < win_end.t /\ ev_end.t > win_start.t

\* InvalidRange with the comparison the wrong way round
InvalidRange_Reversed(start_dt, end_dt) ==
  start_dt # NoneDT /\ end_dt # NoneDT /\ start_dt.t < end_dt.t

\* start_dt and end_dt and end_dt < start_dt (for two bounds of one kind)
InvalidRange(start_dt, end_dt) ==
  start_dt # NoneDT /\ end_dt # NoneDT /\ end_dt.t < start_dt.t

\* index.py:226-284, the part of disponibilite_salle after now is read
salle_reason(evs, now_, start_, end_, url_) ==
  LET start_dt == parse_limit_to_datetime(start_)
      end_dt == parse_limit_to_datetime(end_)
      both == start_dt # NoneDT /\ end_dt # NoneDT
      windowed == start_dt # NoneDT \/ end_dt # NoneDT
      win_start == IF start_dt # NoneDT THEN start_dt ELSE DTMin
      win_end == IF end_dt # NoneDT THEN end_dt ELSE DTMax
      EvEnd(ev) == IF ev.end # NoneDT THEN ev.end ELSE ev.start
      Keep(ev) == WindowKeeps(ev.start, EvEnd(ev), win_start, win_end)
      filterRaises ==
        windowed /\ \E i \in 1..Len(evs) :
                       \/ Mixed(evs[i].start, win_end)
                       \/ (evs[i].start.t < win_end.t /\ Mixed(EvEnd(evs[i]), win_start))
      filtered == IF windowed THEN SelectSeq(evs, Keep) ELSE evs
      normed == NormalizeEnds(filtered)
      ongoing == SelectSeq(normed, LAMBDA e : IsOngoing(e, now_))
      future == SelectSeq(normed, LAMBDA e : IsFuture(e, now_))
      range == RangeKeys(start_dt, end_dt)
  IN IF both /\ Mixed(end_dt, start_dt)
     THEN [exc |-> TRUE, events |-> evs, answer |-> Raised]
     ELSE IF InvalidRange(start_dt, end_dt)
     THEN [exc |-> FALSE, events |-> evs,
           answer |-> [ok |-> FALSE,
                       error |-> "La limite de fin est anterieure a la limite de debut"]]
     ELSE IF filterRaises
     THEN [exc |-> TRUE, events |-> evs, answer |-> Raised]
     ELSE IF OngoingRaises(normed, now_)
     THEN [exc |-> TRUE, events |-> normed, answer |-> Raised]
     ELSE IF ongoing # <<>>
     THEN LET e == FirstByEnd(ongoing)
          IN [exc |-> FALSE, events |-> normed,
              answer |-> [ok |-> TRUE, available |-> FALSE, until |-> isoformat(e.end),
                          summary |-> e.summary, source |-> url_] @@ range]
     ELSE IF future # <<>>
     THEN LET nxt == FirstByStart(future)
          IN [exc |-> FALSE, events |-> normed,
              answer |-> [ok |-> TRUE, available |-> TRUE,
                          free_until |-> isoformat(nxt.start),
                          next_summary |-> nxt.summary, source |-> url_] @@ range]
     ELSE [exc |-> FALSE, events |-> normed,
           answer |-> [ok |-> TRUE, available |-> TRUE, free_until |-> NoneTok,
                       note |-> "Aucun cours repertorie pour aujourd'hui",
                       source |-> url_] @@ range]

\* extract_location(ev) or ev.get("summary"): the records of this model carry
\* no location key, so the summary is what is reported
LocationOf(e) == e.summary

\* index.py:327-362, the part of ou_est_prof after now is read
prof_reason(evs, now_, nom_, url_) ==
  LET normed == NormalizeEnds(evs)
      ongoing == SelectSeq(normed, LAMBDA e : IsOngoing(e, now_))
      future == SelectSeq(normed, LAMBDA e : IsFuture(e, now_))
  IN IF OngoingRaises(normed, now_)
     THEN [exc |-> TRUE, events |-> normed, answer |-> Raised]
     ELSE IF ongoing # <<>>
     THEN LET e == FirstByEnd(ongoing)
          IN [exc |-> FALSE, events |-> normed,
              answer |-> [ok |-> TRUE, name |-> nom_, status |-> "in_class",
                          until |-> isoformat(e.end), location |-> LocationOf(e),
                          summary |-> e.summary, source |-> url_]]
     ELSE IF future # <<>>
     THEN LET nxt == FirstByStart(future)
          IN [exc |-> FALSE, events |-> normed,
              answer |-> [ok |-> TRUE, name |-> nom_, status |-> "free_now",
                          next_start |-> isoformat(nxt.start),
                          next_location |-> LocationOf(nxt),
                          next_summary |-> nxt.summary, source |-> url_]]
     ELSE [exc |-> FALSE, events |-> normed,
           answer |-> [ok |-> TRUE, name |-> nom_, status |-> "free_all_day",
                       note |-> "Aucun cours repertorie pour aujourd'hui",
                       source |-> url_]]

\* the next-event pick shared by parse_update_json_and_next_event and
\* parse_ics_next_event: future = start > now, sorted by start, first taken
\* (the return of parse_ics_next_event, utils.py:219, is indented one level
\* too deep in the source; it is read here as the function's last statement)
NoNext == [start |-> NoneTok, summary |-> ""]
next_event(evs, now_) ==
  LET future == SelectSeq(evs, LAMBDA e : IsFuture(e, now_))
  IN IF \E i \in 1..Len(evs) : Mixed(evs[i].start, now_)
     THEN [exc |-> TRUE, val |-> NoNext]
     ELSE IF future = <<>>
     THEN [exc |-> FALSE, val |-> NoNext]
     ELSE LET nxt == FirstByStart(future)
          IN [exc |-> FALSE, val |-> [start |-> isoformat(nxt.start), summary |-> nxt.summary]]

\* parse_update_json_and_next_event(json_text): the same loop over every day
\* (no only_date, DTEND not read), then the pick after now
parse_update_json_and_next_event(doc, now_) ==
  CASE doc.kind = "json" ->
         IF json_days_raises(doc.days, NoDay)
         THEN [exc |-> TRUE, val |-> NoNext]
         ELSE next_event(json_days_events(doc.days, NoDay), now_)
    [] doc.kind = "json_other" -> [exc |-> TRUE, val |-> NoNext]
    [] OTHER -> [exc |-> FALSE, val |-> NoNext]

\* parse_ics_next_event(ics_text): the block loop of parse_ics_events without
\* DTEND, then the pick after now
parse_ics_next_event(doc, now_) == next_event(parse_ics_events(doc), now_)

\* the richer next event of index.py:154-159: the records of this model carry
\* no location key (extract_location_from_ev gives None) and
\* extract_prof_from_ev falls through to the record's SUMMARY
RichEvent(ev) ==
  [start |-> isoformat(ev.start), summary |-> ev.summary,
   location |-> NoneStr, prof |-> ev.summary]

\* prochain_reason without the calendar fallback
prochain_reason_NoIcs(evs, doc, now_, url_) ==
  LET update_next == next_event(evs, now_)
  IN IF update_next.exc
     THEN [exc |-> TRUE, events |-> evs, answer |-> Raised]
     ELSE IF update_next.val # NoNext
     THEN LET upd_dt == fromisoformat(update_next.val.start)
              hits == SelectSeq(evs, LAMBDA e : e.start = upd_dt)
          IN [exc |-> FALSE, events |-> evs,
              answer |-> [ok |-> TRUE, source |-> url_,
                          next |-> IF hits # <<>> THEN RichEvent(hits[1])
                                   ELSE update_next.val]]
     ELSE [exc |-> FALSE, events |-> evs,
           answer |-> [ok |-> TRUE, source |-> url_, next |-> NoNext,
                       raw_snippet |-> doc.kind]]

\* index.py:98-173, the part of prochain_cours after the fetch; evs is the
\* structured-feed event list of all days.  The calendar parse (index.py:167)
\* is reached only when the structured-feed parse gave no next event.
prochain_reason(evs, doc, now_, url_) ==
  LET update_next == next_event(evs, now_)
      ics_next == next_event(parse_ics_events(doc), now_)
  IN IF update_next.exc
     THEN [exc |-> TRUE, events |-> evs, answer |-> Raised]
     ELSE IF update_next.val # NoNext
     THEN LET upd_dt == fromisoformat(update_next.val.start)
              hits == SelectSeq(evs, LAMBDA e : e.start = upd_dt)
          IN [exc |-> FALSE, events |-> evs,
              answer |-> [ok |-> TRUE, source |-> url_,
                          next |-> IF hits # <<>> THEN RichEvent(hits[1])
                                   ELSE update_next.val]]
     ELSE IF ics_next.val # NoNext
     THEN [exc |-> FALSE, events |-> evs,
           answer |-> [ok |-> TRUE, source |-> url_, next |-> ics_next.val]]
     ELSE [exc |-> FALSE, events |-> evs,
           answer |-> [ok |-> TRUE, source |-> url_, next |-> NoNext,
                       raw_snippet |-> doc.kind]]

\* ------------------------------------------------------ the three operations
Ops == {"prochain_cours", "disponibilite_salle", "ou_est_prof"}

Aliases == {<<"m", "e">>, <<"m", "o", "i">>, <<"s", "e", "l", "f">>}

\* not nom or not str(nom).strip() or str(nom).strip().lower() in ("me", "moi", "self")
IsSelfAlias(n) ==
  \/ n = NoneStr
  \/ Strip(n) = <<>>
  \/ Lower(Strip(n)) \in Aliases

\* FallbackName consulting the process-wide value before the header
FallbackName_EnvFirst(n, hdr, environ) ==
  IF ~IsSelfAlias(n) THEN n
  ELSE IF Strip(OrEmpty(environ)) # <<>> THEN Strip(environ)
  ELSE IF OrEmpty(hdr) # <<>> THEN hdr
  ELSE NoneStr

\* index.py:48-82: the name prochain_cours looks up; NoneStr when the call
\* returns "Aucun nom fourni et MY_EDT non configure"
FallbackName(n, hdr, environ) ==
  IF ~IsSelfAlias(n) THEN n
  ELSE IF OrEmpty(hdr) # <<>> THEN hdr
  ELSE IF Strip(OrEmpty(environ)) # <<>> THEN Strip(environ)
  ELSE NoneStr

IdleCall ==
  /\ op = "none" /\ nom = NoneStr /\ start = NoneTok /\ end = NoneTok
  /\ header = NoneStr /\ env = NoneStr
  /\ pc = "idle" /\ matches = NoMatches /\ entry = NoEntry /\ date = NoneDate
  /\ url = NoUrl /\ content = Doc("none", <<>>, <<>>) /\ events = <<>> /\ now = NoneDT
  /\ answer = NoAnswer /\ fetches = 0 /\ trace = <<>>

\* the directory loaded at import time (utils.py:26-29)
InitDir ==
  /\ prof_data = <<Entry(<<"b">>, 11, NoneId), Entry(<<"A", "b", " ">>, 12, 2024)>>
  /\ student_data = <<Entry(<<"M", "e">>, 21, 2023)>>
  /\ salle_data = <<Entry(<<"a">>, 31, 2022)>>
  /\ univ_data = <<[nameUniv |-> <<"e">>, adeUniv |-> 7,
                    timetable |-> <<Entry(<<"a", "e">>, 41, 2021)>>]>>

Init == InitDir /\ IdleCall /\ parked = <<>>

\* a client invokes one of the three tools
Call(Noms_, Wins_, Headers_, Envs_) ==
  /\ pc \in {"idle", "returned"}
  /\ \E o \in Ops, n \in Noms_ :
       /\ op' = o /\ nom' = n
       /\ IF o = "disponibilite_salle"
          THEN \E s \in Wins_, e \in Wins_ : start' = s /\ end' = e
          ELSE start' = NoneTok /\ end' = NoneTok
       /\ IF o = "prochain_cours"
          THEN \E h \in Headers_, v \in Envs_ : header' = h /\ env' = v
          ELSE header' = NoneStr /\ env' = NoneStr
  /\ pc' = "resolve"
  /\ answer' = NoAnswer
  /\ UNCHANGED <<dirvars, parked, matches, entry, date, url, content, events, now, fetches, trace>>

NoMatchError(o) ==
  IF o = "disponibilite_salle" THEN "Aucune salle trouvee pour ce nom"
  ELSE "Aucune entree trouvee pour ce nom"

\* index.py:48-86, 196-198, 299-301: alias fallback (prochain_cours only) and
\* the directory lookup
Resolve ==
  /\ pc = "resolve"
  /\ trace' = Append(trace, "resolve")
  /\ LET n == IF op = "prochain_cours" THEN FallbackName(nom, header, env) ELSE nom
         found == find_entries_by_name(n)
     IN IF op = "prochain_cours" /\ n = NoneStr
        THEN /\ answer' = [ok |-> FALSE,
                           error |-> "Aucun nom fourni et MY_EDT non configure"]
             /\ pc' = "done"
             /\ UNCHANGED <<nom, matches>>
        ELSE /\ nom' = n
             /\ matches' = found
             /\ IF found.exc
                THEN answer' = Raised /\ pc' = "raised"
                ELSE IF found.val = <<>>
                THEN answer' = [ok |-> FALSE, error |-> NoMatchError(op)] /\ pc' = "done"
                ELSE answer' = answer /\ pc' = "select"
  /\ UNCHANGED <<dirvars, parked, op, start, end, header, env, entry, date, url, content,
                 events, now, fetches>>

\* the first match of a preferred kind, else the first match
Prefer(ms, kinds) ==
  IF \E i \in 1..Len(ms) : ms[i].type \in kinds
  THEN ms[CHOOSE i \in 1..Len(ms) :
            ms[i].type \in kinds /\ \A j \in 1..(i - 1) : ms[j].type \notin kinds]
  ELSE ms[1]

\* SelectEntry without any preference of kind
SelectEntry_FirstMatch(o, ms) == ms[1]

SelectEntry(o, ms) ==
  CASE o = "disponibilite_salle" -> Prefer(ms, {"salle", "univ-timetable"})
    [] o = "ou_est_prof" -> Prefer(ms, {"prof"})
    [] OTHER -> ms[1]

\* index.py:89, 200-207, 303-310
Select ==
  /\ pc = "select"
  /\ trace' = Append(trace, "select")
  /\ entry' = SelectEntry(op, matches.val)
  /\ pc' = "build"
  /\ UNCHANGED <<dirvars, parked, op, nom, start, end, header, env, matches, date, url,
                 content, events, now, answer, fetches>>

BuildError(o) ==
  IF o = "disponibilite_salle"
  THEN "Impossible de construire l'URL de mise a jour pour cette salle"
  ELSE "Impossible de construire l'URL de mise a jour (adeProjectId ou adeResources manquant)"

\* the date argument of build_ade_url: prochain_cours passes none (index.py:91),
\* the two others date=datetime.date.today() (index.py:209, 313)
BuildDate(o) == IF o = "prochain_cours" THEN NoneDate ELSE Date(Today)

\* Build whose failure answer leaves the candidate list out
Build_NoCandidates ==
  /\ pc = "build"
  /\ trace' = Append(trace, "build")
  /\ date' = BuildDate(op)
  /\ LET u == build_ade_url(entry, BuildDate(op))
     IN /\ url' = u
        /\ IF u = NoUrl
           THEN /\ answer' = [ok |-> FALSE, error |-> BuildError(op)]
                /\ pc' = "done"
           ELSE answer' = answer /\ pc' = "fetch"
  /\ UNCHANGED <<dirvars, parked, op, nom, start, end, header, env, matches, entry,
                 content, events, now, fetches>>

\* index.py:91-92/176, 209-211, 313-315
Build ==
  /\ pc = "build"
  /\ trace' = Append(trace, "build")
  /\ date' = BuildDate(op)
  /\ LET u == build_ade_url(entry, BuildDate(op))
     IN /\ url' = u
        /\ IF u = NoUrl
           THEN /\ answer' = [ok |-> FALSE, error |-> BuildError(op),
                              matches |-> matches.val]
                /\ pc' = "done"
           ELSE answer' = answer /\ pc' = "fetch"
  /\ UNCHANGED <<dirvars, parked, op, nom, start, end, header, env, matches, entry,
                 content, events, now, fetches>>

\* fetch_url(url) returns the decoded body
FetchOk(Contents_) ==
  /\ pc = "fetch"
  /\ trace' = Append(trace, "fetch")
  /\ fetches' = fetches + 1
  /\ \E c \in Contents_ : content' = c
  /\ pc' = "normalize"
  /\ UNCHANGED <<dirvars, parked, op, nom, start, end, header, env, matches, entry, date,
                 url, events, now, answer>>

\* FetchFail that tries the fetch again instead of giving up
FetchFail_Retry ==
  /\ pc = "fetch"
  /\ trace' = Append(trace, "fetch")
  /\ fetches' = fetches + 1
  /\ content' = Doc("error", <<>>, <<>>)
  /\ pc' = "fetch"
  /\ UNCHANGED <<dirvars, parked, op, nom, start, end, header, env, matches, entry, date,
                 url, events, now, answer>>

\* fetch_url(url) raises (network failure, HTTP error status, timeout); the
\* except clause returns the failure answer
FetchFail ==
  /\ pc = "fetch"
  /\ trace' = Append(trace, "fetch")
  /\ fetches' = fetches + 1
  /\ content' = Doc("error", <<>>, <<>>)
  /\ answer' = [ok |-> FALSE, error |-> "Erreur lors de la recuperation de l'URL",
                url |-> url]
  /\ pc' = "done"
  /\ UNCHANGED <<dirvars, parked, op, nom, start, end, header, env, matches, entry, date,
                 url, events, now>>

\* index.py:99 (all days), 218-222, 322-325 (today only, calendar fallback)
Normalize ==
  /\ pc = "normalize"
  /\ trace' = Append(trace, "normalize")
  /\ LET parsed == parse_update_json_events(content,
                      IF op = "prochain_cours" THEN NoDay ELSE Today)
     IN IF parsed.exc
        THEN events' = <<>> /\ answer' = Raised /\ pc' = "raised"
        ELSE /\ events' = IF op # "prochain_cours" /\ parsed.val = <<>>
                          THEN parse_ics_events(content)
                          ELSE parsed.val
             /\ answer' = answer
             /\ pc' = "reason"
  /\ UNCHANGED <<dirvars, parked, op, nom, start, end, header, env, matches, entry, date,
                 url, content, now, fetches>>

ReasonResult(o, evs, doc, now_, nom_, start_, end_, url_) ==
  CASE o = "disponibilite_salle" -> salle_reason(evs, now_, start_, end_, url_)
    [] o = "ou_est_prof" -> prof_reason(evs, now_, nom_, url_)
    [] OTHER -> prochain_reason(evs, doc, now_, url_)

\* now = datetime.datetime.now() and everything after it
Reason ==
  /\ pc = "reason"
  /\ trace' = Append(trace, "reason")
  /\ \E t \in Times :
       LET r == ReasonResult(op, events, content, Naive(t), nom, start, end, url)
       IN /\ now' = Naive(t)
          /\ events' = r.events
          /\ answer' = r.answer
          /\ pc' = IF r.exc THEN "raised" ELSE "done"
  /\ UNCHANGED <<dirvars, parked, op, nom, start, end, header, env, matches, entry, date,
                 url, content, fetches>>

\* the answer (or the exception) is handed to the host; the call's locals die
Return ==
  /\ pc \in {"done", "raised"}
  /\ op' = "none" /\ nom' = NoneStr /\ start' = NoneTok /\ end' = NoneTok
  /\ header' = NoneStr /\ env' = NoneStr
  /\ pc' = "returned" /\ matches' = NoMatches /\ entry' = NoEntry
  /\ date' = NoneDate /\ url' = NoUrl /\ content' = Doc("none", <<>>, <<>>) /\ events' = <<>>
  /\ now' = NoneDT /\ fetches' = 0 /\ trace' = <<>>
  /\ UNCHANGED <<dirvars, parked, answer>>

\* ------------------------------------------------- directory lookup inputs
\* the lists of at most n stored entries with names from D; ids base+1, base+2, ...
EntryLists(D, base, n) ==
  UNION {{[i \in 1..k |-> Entry(f[i], base + i, 2024)] : f \in [1..k -> D]} : k \in 0..n}

\* Largest number of professors in the directory of the lookup specification.
MaxProf == 2

ProfNames == {NoneStr, <<" ">>, <<"a", " ">>, <<"b", "A", "B">>}
StudentNames == {NoneStr, <<"a", " ">>}
SalleNames == {<<" ">>, <<"b", "A", "B">>}
UnivNames == {NoneStr, <<"b", "A", "B">>}
TimetableNames == {NoneStr, <<"a", " ">>, <<"b", "A", "B">>}

UnivLists ==
  {<<>>} \cup {<<[nameUniv |-> d, adeUniv |-> 7, timetable |-> tt]>> :
                 d \in UnivNames, tt \in EntryLists(TimetableNames, 40, 2)}

Queries == {NoneStr, <<>>, <<" ">>, <<"a">>, <<"A">>, <<"a", "b">>}

InitLookup ==
  /\ prof_data \in EntryLists(ProfNames, 10, MaxProf)
  /\ student_data \in EntryLists(StudentNames, 20, 1)
  /\ salle_data \in EntryLists(SalleNames, 30, 1)
  /\ univ_data \in UnivLists
  /\ nom \in Queries
  /\ op = "lookup" /\ start = NoneTok /\ end = NoneTok
  /\ header = NoneStr /\ env = NoneStr
  /\ pc = "idle" /\ matches = NoMatches /\ entry = NoEntry /\ date = NoneDate
  /\ url = NoUrl /\ content = Doc("none", <<>>, <<>>) /\ events = <<>> /\ now = NoneDT
  /\ answer = NoAnswer /\ fetches = 0 /\ trace = <<>> /\ parked = <<>>

\* one call of find_entries_by_name(nom)
Lookup ==
  /\ pc = "idle" /\ op = "lookup"
  /\ matches' = find_entries_by_name(nom)
  /\ pc' = "looked"
  /\ UNCHANGED <<dirvars, parked, op, nom, start, end, header, env, entry, date, url,
                 content, events, now, answer, fetches, trace>>

NextLookup == Lookup

SpecLookup == InitLookup /\ [][NextLookup]_vars

\* ---------------------------------------------------- claims on the lookup
\* the stored entries in scan order, each with the key its descriptor carries
\* and its stored display name
Keyed(items, typ) ==
  [i \in 1..Len(items) |->
     [type |-> typ, adeUniv |-> items[i].adeUniv,
      adeResources |-> items[i].adeResources, name |-> OrEmpty(items[i].descTT)]]

RECURSIVE KeyedUniv(_)
KeyedUniv(univs) ==
  IF univs = <<>> THEN <<>>
  ELSE LET u == Head(univs)
       IN <<[type |-> "univ", adeUniv |-> u.adeUniv, adeResources |-> NoneId,
             name |-> OrEmpty(u.nameUniv)]>>
          \o [i \in 1..Len(u.timetable) |->
                [type |-> "univ-timetable", adeUniv |-> u.adeUniv,
                 adeResources |-> u.timetable[i].adeResources,
                 name |-> OrEmpty(u.timetable[i].descTT)]]
          \o KeyedUniv(Tail(univs))

ScanOrder ==
  Keyed(prof_data, "prof") \o Keyed(student_data, "student")
    \o Keyed(salle_data, "salle") \o KeyedUniv(univ_data)

KeyOf(d) == <<d.type, d.adeUniv, d.adeResources>>
KeysOf(ds) == [i \in 1..Len(ds) |-> KeyOf(ds[i])]

\* case-insensitive substring containment
ContainsCI(q, name) == Contains(Lower(q), Lower(name))

\* the display name of a stored entry, as its descriptor carries it: the
\* stored name, with surrounding whitespace trimmed for a professor, student
\* or room (utils.py:104), as is for an institution or sub-timetable
DisplayName(k) ==
  IF k.type \in {"prof", "student", "salle"} THEN Strip(k.name) ELSE k.name

MatchesQuery(k) == ContainsCI(nom, DisplayName(k))

\* C9: the lookup of a non-empty name returns, in scan order (professors,
\* students, rooms, then each institution followed by its sub-timetables, each
\* collection in stored order), exactly the entries whose display name
\* contains the query as a case-insensitive substring, each descriptor
\* carrying that display name.
C9_LookupSubstringScanOrder ==
  (pc = "looked" /\ nom \notin {NoneStr, <<>>}) =>
     /\ ~matches.exc
     /\ KeysOf(matches.val) = KeysOf(SelectSeq(ScanOrder, MatchesQuery))
     /\ \A i \in 1..Len(matches.val) :
          OrEmpty(matches.val[i].desc) = DisplayName(SelectSeq(ScanOrder, MatchesQuery)[i])

\* a lookup of "A" that returned a professor stored as "a " (case and trimming
\* both at work) followed by a later collection's entry
C9_Witness ==
  /\ pc = "looked" /\ nom = <<"A">>
  /\ Len(matches.val) >= 3
  /\ matches.val[1].type = "prof" /\ matches.val[1].desc = <<"a">>
  /\ matches.val[Len(matches.val)].type = "univ-timetable"

\* C10: a lookup with an empty or absent name yields an empty sequence.
C10_EmptyNameEmptyResult ==
  (pc = "looked" /\ nom \in {NoneStr, <<>>}) =>
     (~matches.exc /\ matches.val = <<>>)

\* ------------------------------------------------------ URL builder inputs
\* descriptors of every kind with each identifier absent, zero or positive,
\* and a date argument absent, today or a later day
UrlKinds == {"prof", "student", "salle", "univ", "univ-timetable"}
UrlResources == {NoneId, 0, 31, 32}
UrlProjects == {NoneId, 0, 2023, 2024}
UrlDates == {NoneDate} \cup {Date(Today + k) : k \in 0..2}

InitUrl ==
  /\ InitDir
  /\ entry \in {Descriptor(k, <<"a">>, 0, r, p) :
                  k \in UrlKinds, r \in UrlResources, p \in UrlProjects}
  /\ date \in UrlDates
  /\ op = "build_ade_url" /\ nom = NoneStr /\ start = NoneTok /\ end = NoneTok
  /\ header = NoneStr /\ env = NoneStr
  /\ pc = "idle" /\ matches = NoMatches
  /\ url = NoUrl /\ content = Doc("none", <<>>, <<>>) /\ events = <<>> /\ now = NoneDT
  /\ answer = NoAnswer /\ fetches = 0 /\ trace = <<>> /\ parked = <<>>

\* one call of build_ade_url(entry, date)
BuildUrl ==
  /\ pc \in {"idle", "built"} /\ op = "build_ade_url"
  /\ url' = build_ade_url(entry, date)
  /\ pc' = "built"
  /\ UNCHANGED <<dirvars, parked, op, nom, start, end, header, env, matches, entry, date,
                 content, events, now, answer, fetches, trace>>

NextUrl == BuildUrl

SpecUrl == InitUrl /\ [][NextUrl]_vars

\* ------------------------------------------------ claims on the URL builder
IsQueryable(e) == e.adeResources # NoneId /\ e.adeProjectId # NoneId

SeqsUpTo(S, n) == UNION {[1..k -> S] : k \in 0..n}

ListOps == {"parse_update_json_events", "parse_ics_events"}
NextOps == {"parse_update_json_and_next_event", "parse_ics_next_event"}
JsonOps == {"parse_update_json_events", "parse_update_json_and_next_event"}

\* DTEND and SUMMARY of a record: no end, a timed end, an end no format reads
ParseTails == {<<NoneTok, "s">>, <<Tok("sec", MaxT), "t">>, <<Tok("bad", 0), "u">>}

\* structured-feed records: a timed start in each slot, a start with a UTC
\* offset, a bare date (tomorrow's), an unreadable start, no start, and an
\* element that is not an object
ParseRecs ==
  {Rec(s, x[1], x[2]) :
     s \in {Tok("sec", t) : t \in Times}
            \cup {Tok("offset", 1), Tok("date10", Today + 1), Tok("bad", 0), NoneTok},
     x \in ParseTails}
  \cup {NonDict}

\* calendar blocks: a timed start (with trailing Z) in each slot, the bare
\* dates YYYYMMDD and YYYY-MM-DD, an unreadable start, no DTSTART line
ParseBlocks ==
  {Rec(s, x[1], x[2]) :
     s \in {Tok("z", t) : t \in Times}
            \cup {Tok("date8", Today + 1), Tok("date10", Today + 1), Tok("bad", 0), NoneTok},
     x \in ParseTails}

JsonTexts ==
  {Doc("json", <<[key |-> Today, recs |-> recs]>>, <<>>) :
     recs \in SeqsUpTo(ParseRecs, MaxEvents)}
  \cup {Doc("json", <<[key |-> Today + 1, recs |-> <<r>>]>>, <<>>) : r \in ParseRecs}
  \cup {Doc("json_other", <<>>, <<>>), Doc("text", <<>>, <<>>)}

IcsTexts ==
  {Doc("ics", <<>>, bs) : bs \in SeqsUpTo(ParseBlocks, MaxEvents)}
  \cup {Doc("text", <<>>, <<>>)}

InitParse ==
  /\ InitDir
  /\ op \in ListOps \cup NextOps
  /\ content \in IF op \in JsonOps THEN JsonTexts ELSE IcsTexts
  /\ date \in IF op = "parse_update_json_events" THEN {NoneDate, Date(Today)} ELSE {NoneDate}
  /\ nom = NoneStr /\ start = NoneTok /\ end = NoneTok
  /\ header = NoneStr /\ env = NoneStr
  /\ pc = "idle" /\ matches = NoMatches /\ entry = NoEntry
  /\ url = NoUrl /\ events = <<>> /\ now = NoneDT
  /\ answer = NoAnswer /\ fetches = 0 /\ trace = <<>> /\ parked = <<>>

\* the only_date argument: absent, or the date as YYYY-MM-DD
OnlyDate(d) == IF d = NoneDate THEN NoDay ELSE strftime_ymd(d)

\* one call of parse_update_json_events(content, only_date) or
\* parse_ics_events(content)
ParseEvents ==
  /\ pc = "idle" /\ op \in ListOps
  /\ LET r == IF op = "parse_update_json_events"
               THEN parse_update_json_events(content, OnlyDate(date))
               ELSE [exc |-> FALSE, val |-> parse_ics_events(content)]
     IN /\ events' = r.val
        /\ answer' = IF r.exc THEN Raised ELSE answer
        /\ pc' = IF r.exc THEN "raised" ELSE "parsed"
  /\ UNCHANGED <<dirvars, parked, op, nom, start, end, header, env, matches, entry, date,
                 url, content, now, fetches, trace>>

\* one call of parse_update_json_and_next_event(content) or
\* parse_ics_next_event(content); each reads the clock itself
ParseNext ==
  /\ pc = "idle" /\ op \in NextOps
  /\ \E t \in Times :
       LET r == IF op = "parse_update_json_and_next_event"
                THEN parse_update_json_and_next_event(content, Naive(t))
                ELSE parse_ics_next_event(content, Naive(t))
       IN /\ now' = Naive(t)
          /\ answer' = IF r.exc THEN Raised ELSE [next |-> r.val]
          /\ pc' = IF r.exc THEN "raised" ELSE "parsed"
  /\ UNCHANGED <<dirvars, parked, op, nom, start, end, header, env, matches, entry, date,
                 url, content, events, fetches, trace>>

NextParse == ParseEvents \/ ParseNext

SpecParse == InitParse /\ [][NextParse]_vars

\* -------------------------------------------------- claims on the parsers
\* the records or blocks of the input that the call scans, in order
Scanned ==
  IF content.kind = "json"
  THEN IF op = "parse_update_json_events" /\ date # NoneDate
          /\ content.days[1].key # strftime_ymd(date)
       THEN <<>>
       ELSE content.days[1].recs
  ELSE IF content.kind = "ics" THEN content.blocks
  ELSE <<>>

\* the start of a record or block is there and is a timestamp its parser reads
ReadableStart(r) ==
  /\ r # NonDict
  /\ r.DTSTART.fmt \in (IF op \in JsonOps THEN {"sec", "offset", "date10"} ELSE {"z"})

\* the slot a timestamp string spells
SlotOf(tok) == IF tok.fmt = "date10" THEN tok.t * SlotsPerDay ELSE tok.t

\* the list parsers return, in order, the records with a readable start
ReturnsReadable ==
  LET good == SelectSeq(Scanned, ReadableStart)
  IN /\ Len(events) = Len(good)
     /\ \A i \in 1..Len(good) :
          /\ events[i].summary = good[i].SUMMARY
          /\ events[i].start.t = SlotOf(good[i].DTSTART)

\* what holds of C15: a list parser that returns has skipped the records
\* without a readable start and kept every other one, in order
C15_SkipsUnreadableStarts ==
  (pc = "parsed" /\ op \in ListOps) => ReturnsReadable

\* C15: no input makes a parser raise: records and blocks whose start is
\* missing, malformed or unparseable are skipped, the others returned, and a
\* text that is not the expected JSON gives an empty list (none from the
\* next-event entry point).
C15_PartialResultsNeverError ==
  /\ C15_SkipsUnreadableStarts
  /\ pc # "raised"
  /\ (pc = "parsed" /\ content.kind \in {"text", "json_other"}) =>
        IF op \in ListOps THEN events = <<>> ELSE answer.next = NoNext

\* the start of a record or block is a bare date, without time of day
BareDateStart(r) == r # NonDict /\ r.DTSTART.fmt \in {"date8", "date10"}

\* what holds of C17: the calendar parser's list holds no event of a block
\* whose start is a bare date, and its next event is none when every block's
\* start is one
C17_CalendarSkipsBareDates ==
  (pc = "parsed" /\ op \notin JsonOps) =>
     /\ op \in ListOps =>
          Len(events) <= Len(SelectSeq(Scanned, LAMBDA r : ~BareDateStart(r)))
     /\ (op \in NextOps /\ \A i \in 1..Len(Scanned) : BareDateStart(Scanned[i])) =>
          answer.next = NoNext

\* C17: neither parser lets a record or block whose start is a bare date into
\* its event list, nor returns one as the next event.
C17_BareDatesExcluded ==
  pc = "parsed" =>
     /\ op \in ListOps =>
          Len(events) <= Len(SelectSeq(Scanned, LAMBDA r : ~BareDateStart(r)))
     /\ (op \in NextOps /\ \A i \in 1..Len(Scanned) : BareDateStart(Scanned[i])) =>
          answer.next = NoNext

\* the events a next-event entry point has parsed, in scan order
ParsedOf ==
  IF content.kind = "json" /\ op \in JsonOps THEN json_days_events(content.days, NoDay)
  ELSE IF content.kind = "ics" /\ op \notin JsonOps THEN ics_block_events(content.blocks)
  ELSE <<>>

\* C18: a next-event entry point returns none when no parsed event starts
\* after now, and otherwise the event of least start among those starting
\* after now, the first of them in scan order when several share that start.
C18_NextIsEarliestFirstOfTies ==
  (pc = "parsed" /\ op \in NextOps) =>
     LET evs == ParsedOf
         F == {i \in 1..Len(evs) : evs[i].start.t > now.t}
     IN IF F = {}
        THEN answer.next = NoNext
        ELSE \E i \in F :
               /\ answer.next = [start |-> Tok("iso", evs[i].start.t),
                                 summary |-> evs[i].summary]
               /\ \A j \in F :
                    \/ evs[i].start.t < evs[j].start.t
                    \/ (evs[i].start.t = evs[j].start.t /\ i <= j)

\* the two parsed events share one start, after now, and differ in summary;
\* the first listed is returned
C18_Witness ==
  /\ pc = "parsed" /\ op \in NextOps
  /\ Len(ParsedOf) = 2
  /\ ParsedOf[1].start = ParsedOf[2].start /\ ParsedOf[1].start.t > now.t
  /\ ParsedOf[1].summary # ParsedOf[2].summary
  /\ answer.next.summary = ParsedOf[1].summary

\* ------------------------------------------------ inputs of the call pipeline
TodayDoc(recs) == Doc("json", <<[key |-> Today, recs |-> recs]>>, <<>>)

\* names a caller passes: absent, empty, blank, a self-alias, names with one
\* or several matches, a name whose first match is not queryable, no match
CallNoms == {NoneStr, <<>>, <<" ">>, <<"M", "e">>, <<"a">>, <<"e">>, <<"b">>, <<"z">>}
CallHeaders == {NoneStr, <<>>, <<"A">>}
CallEnvs == {NoneStr, <<" ", "z">>, <<"b">>}
CallWins == {NoneTok, Tok("hm", 0), Tok("hm", MaxT), Tok("bad", 0), Tok("offset", 1)}

\* response texts: a day of at most one record in every timestamp spelling,
\* a record of another day, calendar text of today's events and of one
\* event of tomorrow, non-object JSON, other text
CallRecs ==
  {Rec(s, e, "s") :
     s \in {Tok("sec", t) : t \in Times} \cup {Tok("offset", 1), Tok("bad", 0), NoneTok},
     e \in {Tok("sec", t) : t \in Times} \cup {NoneTok}}
CallBlocks ==
  {Rec(s, e, "s") :
     s \in {Tok("z", t) : t \in Times} \cup {Tok("date8", 0), Tok("bad", 0)},
     e \in {Tok("sec", MaxT), NoneTok}}
  \cup {Rec(Tok("z", SlotsPerDay + 1), NoneTok, "s")}
CallContents ==
  {TodayDoc(recs) : recs \in SeqsUpTo(CallRecs, 1)}
  \cup {Doc("json", <<[key |-> Today + 1, recs |-> <<Rec(Tok("sec", MaxT), NoneTok, "s")>>]>>, <<>>)}
  \cup {Doc("ics", <<>>, bs) : bs \in SeqsUpTo(CallBlocks, 1)}
  \cup {Doc("json_other", <<>>, <<>>), Doc("text", <<>>, <<>>)}

Next ==
  \/ Call(CallNoms, CallWins, CallHeaders, CallEnvs)
  \/ Resolve
  \/ Select
  \/ Build
  \/ FetchOk(CallContents)
  \/ FetchFail
  \/ Normalize
  \/ Reason
  \/ Return

Spec == Init /\ [][Next]_vars

\* -------------------------------------------------- inputs of the reasoner
\* one resolvable name, every day of at most MaxEvents well-formed records,
\* every window of absent, unparseable and HH:MM bounds
ReasonNoms == {<<"a">>}
ReasonWins == {NoneTok, Tok("bad", 0)} \cup {Tok("hm", t) : t \in Times}
ReasonRecs ==
  {Rec(Tok("sec", s), e, "s") :
     s \in Times, e \in {Tok("sec", t) : t \in Times} \cup {NoneTok}}
ReasonContents == {TodayDoc(recs) : recs \in SeqsUpTo(ReasonRecs, MaxEvents)}

NextReason ==
  \/ Call(ReasonNoms, ReasonWins, {NoneStr}, {NoneStr})
  \/ Resolve
  \/ Select
  \/ Build
  \/ FetchOk(ReasonContents)
  \/ FetchFail
  \/ Normalize
  \/ Reason
  \/ Return

SpecReason == Init /\ [][NextReason]_vars

\* --------------------------------------------------------- concurrent calls
\* Largest number of calls in progress at once.
MaxCalls == 2

\* The host serves each call on its own coroutine or thread.  The variables
\* op .. trace are the locals of the call that is running; parked holds those
\* of the other calls, each as a record.  The directory is the only state the
\* calls have in common.
Locals ==
  [op |-> op, nom |-> nom, start |-> start, end |-> end, header |-> header,
   env |-> env, pc |-> pc, matches |-> matches, entry |-> entry, date |-> date,
   url |-> url, content |-> content, events |-> events, now |-> now,
   answer |-> answer, fetches |-> fetches, trace |-> trace]

IdleLocals ==
  [op |-> "none", nom |-> NoneStr, start |-> NoneTok, end |-> NoneTok,
   header |-> NoneStr, env |-> NoneStr, pc |-> "idle", matches |-> NoMatches,
   entry |-> NoEntry, date |-> NoneDate, url |-> NoUrl,
   content |-> Doc("none", <<>>, <<>>), events |-> <<>>, now |-> NoneDT,
   answer |-> NoAnswer, fetches |-> 0, trace |-> <<>>]

\* Switch with the event list kept in one place for all calls
Switch_SharedEvents ==
  \E i \in 1..Len(parked) :
     LET c == parked[i]
     IN /\ parked' = [parked EXCEPT ![i] = Locals]
        /\ op' = c.op /\ nom' = c.nom /\ start' = c.start /\ end' = c.end
        /\ header' = c.header /\ env' = c.env /\ pc' = c.pc
        /\ matches' = c.matches /\ entry' = c.entry /\ date' = c.date
        /\ url' = c.url /\ content' = c.content /\ events' = events
        /\ now' = c.now /\ answer' = c.answer /\ fetches' = c.fetches
        /\ trace' = c.trace
        /\ UNCHANGED dirvars

\* the scheduler suspends the running call between two of its steps and
\* resumes another one; every local travels with its call
Switch ==
  \E i \in 1..Len(parked) :
     LET c == parked[i]
     IN /\ parked' = [parked EXCEPT ![i] = Locals]
        /\ op' = c.op /\ nom' = c.nom /\ start' = c.start /\ end' = c.end
        /\ header' = c.header /\ env' = c.env /\ pc' = c.pc
        /\ matches' = c.matches /\ entry' = c.entry /\ date' = c.date
        /\ url' = c.url /\ content' = c.content /\ events' = c.events
        /\ now' = c.now /\ answer' = c.answer /\ fetches' = c.fetches
        /\ trace' = c.trace
        /\ UNCHANGED dirvars

\* calls of the three operations with a name that resolves, a name that is
\* absent, no window, and a day with one event to come or a text that is no
\* feed
ConcNoms == {NoneStr, <<"a">>}
ConcContents ==
  {TodayDoc(<<Rec(Tok("sec", MaxT), NoneTok, "s")>>), Doc("text", <<>>, <<>>)}

InitConc ==
  /\ InitDir /\ IdleCall
  /\ parked = [i \in 1..(MaxCalls - 1) |-> IdleLocals]

NextConc ==
  \/ Call(ConcNoms, {NoneTok}, {NoneStr}, {NoneStr})
  \/ Resolve
  \/ Select
  \/ Build
  \/ FetchOk(ConcContents)
  \/ FetchFail
  \/ Normalize
  \/ Reason
  \/ Return
  \/ Switch

SpecConc == InitConc /\ [][NextConc]_vars

\* --------------------------------------------- claims on concurrent calls
\* the answer of a call run alone with the arguments, the fetched text (or
\* fetch failure) and the clock reading of the call c
SoloAnswer(c) ==
  LET n == IF c.op = "prochain_cours" THEN FallbackName(c.nom, c.header, c.env) ELSE c.nom
      found == find_entries_by_name(n)
      e == SelectEntry(c.op, found.val)
      u == build_ade_url(e, BuildDate(c.op))
      parsed == parse_update_json_events(c.content,
                   IF c.op = "prochain_cours" THEN NoDay ELSE Today)
      evs == IF c.op # "prochain_cours" /\ parsed.val = <<>>
             THEN parse_ics_events(c.content) ELSE parsed.val
  IN IF c.op = "prochain_cours" /\ n = NoneStr
     THEN [ok |-> FALSE, error |-> "Aucun nom fourni et MY_EDT non configure"]
     ELSE IF found.exc THEN Raised
     ELSE IF found.val = <<>> THEN [ok |-> FALSE, error |-> NoMatchError(c.op)]
     ELSE IF u = NoUrl
     THEN [ok |-> FALSE, error |-> BuildError(c.op), matches |-> found.val]
     ELSE IF c.content.kind = "error"
     THEN [ok |-> FALSE, error |-> "Erreur lors de la recuperation de l'URL", url |-> u]
     ELSE IF parsed.exc THEN Raised
     ELSE ReasonResult(c.op, evs, c.content, c.now, n, c.start, c.end, u).answer

\* the running call and the suspended ones
AllCalls == {Locals} \cup {parked[i] : i \in 1..Len(parked)}

\* C20: whatever the interleaving of the calls in progress, the four
\* directory collections keep the value loaded at startup, and every call
\* that has ended carries the answer it gives when run alone with the same
\* arguments, clock and fetched text.
C20_CallsDoNotInterfere ==
  /\ InitDir
  /\ \A c \in AllCalls : c.pc \in {"done", "raised"} => c.answer = SoloAnswer(c)

\* two calls in progress at once: one suspended after its fetch and before
\* its reasoning, while the other, started later, has already ended
C20_Witness ==
  /\ pc = "done" /\ Len(trace) = 6 /\ answer.ok
  /\ \E i \in 1..Len(parked) :
       /\ parked[i].pc = "reason" /\ parked[i].op # op
       /\ parked[i].content # content

\* ------------------------------------------------- claims on the reasoner
RoomOrProf == op \in {"disponibilite_salle", "ou_est_prof"}

\* the call ran the reasoner to its end and returned an ok answer
Reasoned == pc = "done" /\ Len(trace) = 6 /\ answer.ok

\* the events (by position) in progress at now, and those still to come
OngoingSet == {i \in 1..Len(events) :
                 events[i].start.t <= now.t /\ now.t < events[i].end.t}
FutureSet == {i \in 1..Len(events) : events[i].start.t > now.t}

IsBusy ==
  IF op = "disponibilite_salle" THEN ~answer.available ELSE answer.status = "in_class"

\* C1: in disponibilite_salle and ou_est_prof the answer is busy exactly when
\* some event has start <= now < end, and then until is the least end over
\* those events.
C1_BusyUntilEarliestEnd ==
  (RoomOrProf /\ Reasoned) =>
     /\ IsBusy <=> OngoingSet # {}
     /\ OngoingSet # {} =>
          \E i \in OngoingSet :
             /\ answer.until = Tok("iso", events[i].end.t)
             /\ \A j \in OngoingSet : events[i].end.t <= events[j].end.t

\* two events in progress, the one ending later listed first; until is the
\* earlier end
C1_Witness ==
  /\ RoomOrProf /\ Reasoned
  /\ Len(events) = 2 /\ OngoingSet = {1, 2}
  /\ events[2].end.t < events[1].end.t
  /\ answer.until.t = events[2].end.t

FreeUntil == IF op = "disponibilite_salle" THEN answer.free_until ELSE answer.next_start

\* C2: when no event is in progress, the answer is free; if some event starts
\* after now, free_until / next_start is the least such start, otherwise
\* free_until is null (disponibilite_salle) or the status is free_all_day with
\* no next_start (ou_est_prof).
C2_FreeUntilEarliestStart ==
  (RoomOrProf /\ Reasoned /\ OngoingSet = {}) =>
     /\ ~IsBusy
     /\ IF FutureSet # {}
        THEN /\ op = "ou_est_prof" => answer.status = "free_now"
             /\ \E i \in FutureSet :
                  /\ FreeUntil = Tok("iso", events[i].start.t)
                  /\ \A j \in FutureSet : events[i].start.t <= events[j].start.t
        ELSE IF op = "disponibilite_salle"
             THEN answer.free_until = NoneTok
             ELSE answer.status = "free_all_day" /\ "next_start" \notin DOMAIN answer

\* nothing in progress, two events to come, the later one listed first
C2_Witness ==
  /\ RoomOrProf /\ Reasoned /\ OngoingSet = {}
  /\ Len(events) = 2 /\ FutureSet = {1, 2}
  /\ events[2].start.t < events[1].start.t
  /\ FreeUntil.t = events[2].start.t

\* the slot of a supplied HH:MM window bound; Unbounded for an absent bound
\* (and for one that does not parse)
Unbounded == 0 - 1
WinSlot(tok) == IF tok.fmt = "hm" THEN tok.t ELSE Unbounded

EndOrStart(e) == IF e.end = NoneDT THEN e.start ELSE e.end

InWindow(e) ==
  /\ WinSlot(end) = Unbounded \/ e.start.t < WinSlot(end)
  /\ WinSlot(start) = Unbounded \/ EndOrStart(e).t > WinSlot(start)

\* C3: the reasoning step of disponibilite_salle passes on to the
\* ongoing/future computation exactly the parsed events with
\* start < winEnd and end > winStart (a missing end counted as the start, an
\* absent bound unbounded), in their order; with no window all are kept.
C3_WindowKeepsOverlapping ==
  [][(pc = "reason" /\ pc' = "done" /\ op = "disponibilite_salle" /\ answer'.ok) =>
       LET kept == SelectSeq(events, InWindow)
       IN /\ Len(events') = Len(kept)
          /\ \A i \in 1..Len(kept) :
               /\ events'[i].start = kept[i].start
               /\ events'[i].end = EndOrStart(kept[i])
               /\ events'[i].summary = kept[i].summary]_vars

\* a window with both bounds that dropped one of two parsed events
C3_Witness ==
  /\ op = "disponibilite_salle" /\ Reasoned
  /\ start.fmt = "hm" /\ end.fmt = "hm"
  /\ Len(content.days[1].recs) = 2 /\ Len(events) = 1

\* C4: in disponibilite_salle, when both window bounds are supplied (as HH:MM
\* times) and the end is earlier than the start, the call never returns an
\* ok=true answer, and a call that reaches the reasoner returns the
\* invalid-range failure.
C4_InvalidRangeRefused ==
  (pc = "done" /\ op = "disponibilite_salle"
     /\ start.fmt = "hm" /\ end.fmt = "hm" /\ end.t < start.t) =>
     /\ ~answer.ok
     /\ "error" \in DOMAIN answer /\ answer.error # ""
     /\ Len(trace) = 6 =>
          answer.error = "La limite de fin est anterieure a la limite de debut"

\* a reversed window refused by the reasoner after a successful fetch
C4_Witness ==
  /\ pc = "done" /\ op = "disponibilite_salle"
  /\ start = Tok("hm", MaxT) /\ end = Tok("hm", 0)
  /\ Len(trace) = 6 /\ content.kind = "json" /\ ~answer.ok

\* ------------------------------------------------- claims on the pipeline
NotQueryable(e) == e.adeResources = NoneId \/ e.adeProjectId = NoneId

IsFailure == ~answer.ok /\ "error" \in DOMAIN answer /\ answer.error # ""

\* C5: in each operation a lookup without match, a selected descriptor that is
\* not queryable and a fetch that raises each end the call with ok=false and a
\* non-empty error; the fetch failure carries the URL, the build failure the
\* candidate list.
C5_FailureAnswers ==
  (pc = "done" /\ op \in Ops) =>
     /\ (Len(trace) = 1 /\ matches = [exc |-> FALSE, val |-> <<>>]) => IsFailure
     /\ (Len(trace) = 3 /\ NotQueryable(entry)) =>
          /\ IsFailure
          /\ "matches" \in DOMAIN answer /\ answer.matches = matches.val
     /\ content.kind = "error" =>
          /\ IsFailure
          /\ "url" \in DOMAIN answer /\ answer.url = url /\ url # NoUrl

\* ou_est_prof selected a descriptor that is not queryable and answered with
\* the two candidates
C5_Witness ==
  /\ pc = "done" /\ op = "ou_est_prof"
  /\ NotQueryable(entry) /\ Len(matches.val) = 2
  /\ ~answer.ok /\ answer.matches = matches.val

\* C6: every call ends with an answer payload carrying ok, every failure being
\* an {ok: false, error: message} payload; no call ends in a raised exception.
C6_NothingPropagates ==
  (pc \in {"done", "raised"}) =>
     /\ pc = "done"
     /\ "ok" \in DOMAIN answer
     /\ ~answer.ok => "error" \in DOMAIN answer

Count(seq, x) == Cardinality({i \in 1..Len(seq) : seq[i] = x})

\* C7: a call fetches at most once, and a fetch that fails is not retried: the
\* call is then over with a failure answer after exactly one fetch.
C7_AtMostOneFetch ==
  /\ fetches <= 1
  /\ Count(trace, "fetch") = fetches
  /\ content.kind = "error" => (pc = "done" /\ fetches = 1 /\ IsFailure)

\* a call that ended on a failed fetch
C7_Witness ==
  pc = "done" /\ content.kind = "error" /\ fetches = 1 /\ ~answer.ok

StageOrder == <<"resolve", "select", "build", "fetch", "normalize", "reason">>

\* the stages run so far are the first stages, in order
C8_StagePrefix ==
  /\ Len(trace) <= Len(StageOrder)
  /\ trace = SubSeq(StageOrder, 1, Len(trace))
  /\ Count(trace, "fetch") > 0 => (~matches.exc /\ matches.val # <<>> /\ url # NoUrl)
  /\ content.kind = "error" => trace[Len(trace)] = "fetch"

\* C8: the stages run in the order resolve, select, build, fetch, normalize,
\* reason; no fetch without a match and a URL; nothing after a fetch error;
\* and every call ends in one terminal answer.
C8_StagesThenOneAnswer ==
  /\ C8_StagePrefix
  /\ pc \in {"done", "raised"} => (pc = "done" /\ "ok" \in DOMAIN answer)

\* ------------------------------------------------ claims on the selection
PreferredKinds(o) ==
  CASE o = "disponibilite_salle" -> {"salle", "univ-timetable"}
    [] o = "ou_est_prof" -> {"prof"}
    [] OTHER -> {}

\* C12: a call selects one candidate, once: prochain_cours the first match;
\* disponibilite_salle the first match of kind salle or univ-timetable when
\* there is one, otherwise the first match; ou_est_prof the first match of
\* kind prof when there is one, otherwise the first match.
C12_CandidateSelection ==
  /\ Count(trace, "select") <= 1
  /\ Count(trace, "select") = 1 =>
       LET ms == matches.val
           P == {i \in 1..Len(ms) : ms[i].type \in PreferredKinds(op)}
       IN IF P = {}
          THEN entry = ms[1]
          ELSE \E i \in P : entry = ms[i] /\ \A j \in P : i <= j

\* disponibilite_salle passed over a professor listed first and took the room
C12_Witness ==
  /\ op = "disponibilite_salle" /\ Count(trace, "select") = 1
  /\ Len(matches.val) = 3 /\ matches.val[1].type = "prof"
  /\ entry = matches.val[2] /\ entry.type = "salle"

\* --------------------------------------------- claims on prochain_cours
\* prochain_cours ran to the end of its parse strategies
NextClassDone == op = "prochain_cours" /\ pc = "done" /\ Len(trace) = 6

\* the positions of the events of a list that start after now
FutureOf(evs) == {i \in 1..Len(evs) : evs[i].start.t > now.t}

\* answer.next is an event of evs starting after now, of least such start
NextIsEarliestOf(evs) ==
  \E i \in FutureOf(evs) :
     /\ answer.next.start = Tok("iso", evs[i].start.t)
     /\ answer.next.summary = evs[i].summary
     /\ \A j \in FutureOf(evs) : evs[i].start.t <= evs[j].start.t

\* C13: in prochain_cours after a successful fetch, when the structured feed
\* holds an event after now the answer's next is the structured feed's next
\* event; otherwise, when the calendar text holds one, the calendar's next
\* event; otherwise the answer is ok=true with next=null and a raw preview.
C13_ParsePriority ==
  NextClassDone =>
     /\ answer.ok
     /\ IF FutureOf(events) # {}
        THEN NextIsEarliestOf(events) /\ "raw_snippet" \notin DOMAIN answer
        ELSE IF FutureOf(parse_ics_events(content)) # {}
        THEN NextIsEarliestOf(parse_ics_events(content))
               /\ "raw_snippet" \notin DOMAIN answer
        ELSE answer.next = NoNext /\ "raw_snippet" \in DOMAIN answer

\* the structured feed gave nothing and the calendar text gave the next event
C13_Witness ==
  /\ NextClassDone /\ content.kind = "ics" /\ events = <<>>
  /\ answer.ok /\ answer.next # NoNext /\ answer.next.start.t > now.t

\* the name is absent, blank or one of me / moi / self in any case
BlankOrAlias(n) ==
  \/ n = NoneStr
  \/ \A i \in 1..Len(n) : n[i] \in WhiteSpace
  \/ \E a \in Aliases : Lower(Strip(n)) = a

HeaderPresent == header # NoneStr /\ header # <<>>
EnvPresent == env # NoneStr /\ Strip(env) # <<>>

\* C14: the resolve step of prochain_cours looks up the header value when the
\* name is absent, blank or a self-alias and a header value is present, the
\* (trimmed) MY_EDT value when only that is set, and ends the call with
\* ok=false, without lookup or fetch, when neither is; any other name is
\* looked up as given.
C14_AliasFallback ==
  [][(pc = "resolve" /\ op = "prochain_cours") =>
       IF ~BlankOrAlias(nom)
       THEN nom' = nom /\ matches' = find_entries_by_name(nom)
       ELSE IF HeaderPresent
       THEN nom' = header /\ matches' = find_entries_by_name(header)
       ELSE IF EnvPresent
       THEN nom' = Strip(env) /\ matches' = find_entries_by_name(Strip(env))
       ELSE /\ pc' = "done" /\ ~answer'.ok /\ answer'.error # ""
            /\ matches' = NoMatches /\ fetches' = 0 /\ trace' = <<"resolve">>]_vars

\* a call whose alias was replaced by the header value although MY_EDT was
\* set too, and whose lookup matched
C14_Witness ==
  /\ op = "prochain_cours" /\ pc = "select"
  /\ nom = <<"A">> /\ header = <<"A">> /\ env = <<"b">>
  /\ matches.val # <<>>

\* ------------------------------------------------ claims on the event ends
\* today's records of the fetched structured feed
TodayRecs == IF content.kind = "json" THEN content.days[1].recs ELSE <<>>

\* a room or professor call whose structured feed parsed to one event per
\* record, at the parser's output and after an unwindowed reasoning step
AtParserOutput == RoomOrProf /\ pc = "reason" /\ Len(events) = Len(TodayRecs)
AfterReasoner ==
  /\ RoomOrProf /\ Reasoned /\ Len(events) = Len(TodayRecs)
  /\ start = NoneTok /\ end = NoneTok

\* the end of event i is the parsed DTEND of its record, or the event's start
\* when the record has no DTEND
EndOrStartOfRecord(i) ==
  events[i].end = IF TodayRecs[i].DTEND = NoneTok THEN events[i].start
                  ELSE Naive(TodayRecs[i].DTEND.t)

\* C16 as stated: the events the structured-feed parser produces already have
\* end = parsed DTEND when DTEND is present and end = start otherwise, and the
\* same holds after the normalization step of the reasoner.
C16_AsStated ==
  (AtParserOutput \/ AfterReasoner) => \A i \in 1..Len(events) : EndOrStartOfRecord(i)

\* C16: the event the structured-feed parser produces for a well-formed
\* record has end = parsed DTEND when DTEND is present and no end otherwise;
\* after the normalization step of the reasoner its end is the parsed DTEND
\* or else its start, so no event reaches the ongoing/future computation with
\* a missing end.
C16_EndSetByReasoner ==
  /\ AtParserOutput =>
       \A i \in 1..Len(events) :
          events[i].end = IF TodayRecs[i].DTEND = NoneTok THEN NoneDT
                          ELSE Naive(TodayRecs[i].DTEND.t)
  /\ AfterReasoner => \A i \in 1..Len(events) : EndOrStartOfRecord(i)
  /\ (RoomOrProf /\ Reasoned) => \A i \in 1..Len(events) : events[i].end # NoneDT

\* a record without DTEND listed after one with DTEND: the reasoner gave the
\* second event its start as end and kept the first event's DTEND
C16_Witness ==
  /\ AfterReasoner /\ Len(events) = 2
  /\ TodayRecs[1].DTEND # NoneTok /\ TodayRecs[2].DTEND = NoneTok
  /\ events[1].end = Naive(TodayRecs[1].DTEND.t)
  /\ events[2].end = events[2].start

\* ------------------------------------------------ claims on the time zone
\* what holds of C19: the calendar parser reads a trailing Z as literal time,
\* so the events of a calendar text are naive
C19_CalendarEventsNaive ==
  content.kind = "ics" =>
     \A i \in 1..Len(events) :
        events[i].start.tz = "naive" /\ events[i].end.tz # "aware"

\* C19: every start and end a parser produces and every window bound
\* parse_limit_to_datetime produces is naive, so no comparison of the reasoner
\* meets a timestamp with a UTC offset.
C19_AllTimestampsNaive ==
  /\ \A i \in 1..Len(events) :
        events[i].start.tz = "naive" /\ events[i].end.tz # "aware"
  /\ (op = "disponibilite_salle" /\ Len(trace) = 6) =>
       /\ parse_limit_to_datetime(start).tz # "aware"
       /\ parse_limit_to_datetime(end).tz # "aware"
       /\ pc # "raised"

\* --------------------------------------------------- claims on the day
\* the day a slot lies on
DayOf(t) == t \div SlotsPerDay

\* what holds of C21: the URL of a room or professor call is built for
\* today's date, and the days of a structured feed other than today's give
\* no event
C21_FeedOfTodayOnly ==
  RoomOrProf =>
     /\ url # NoUrl => url.date = strftime_ymd(Date(Today))
     /\ (content.kind = "json" /\ content.days[1].key # Today) => events = <<>>

\* C21: in disponibilite_salle and ou_est_prof the URL is built for today and
\* every event that enters the ongoing/future computation, from the
\* structured feed or from the calendar fallback, lies on today's date, so
\* until, free_until and next_start are never on another day.
C21_TodayOnly ==
  RoomOrProf =>
     /\ url # NoUrl => url.date = strftime_ymd(Date(Today))
     /\ \A i \in 1..Len(events) : DayOf(events[i].start.t) = Today
     /\ Reasoned =>
          /\ "until" \in DOMAIN answer => DayOf(answer.until.t) = Today
          /\ ("free_until" \in DOMAIN answer /\ answer.free_until # NoneTok) =>
               DayOf(answer.free_until.t) = Today
          /\ "next_start" \in DOMAIN answer => DayOf(answer.next_start.t) = Today

\* ------------------------------------------- claims on unparseable bounds
\* the reasoning step of disponibilite_salle has run
SalleReasoned ==
  op = "disponibilite_salle" /\ Len(trace) = 6 /\ pc \in {"done", "raised"}

\* a supplied bound that is none of the accepted spellings
Unparseable(tok) == tok.fmt = "bad"
AsAbsent(tok) == IF Unparseable(tok) THEN NoneTok ELSE tok

\* the events the call parsed out of the fetched text
ParsedEvents ==
  LET parsed == parse_update_json_events(content, Today).val
  IN IF parsed = <<>> THEN parse_ics_events(content) ELSE parsed

\* the isoformat of the bound a supplied string parses to, NoneTok if none
ExpectedBound(tok) ==
  CASE tok.fmt = "hm" -> Tok("iso", Today * SlotsPerDay + tok.t)
    [] tok.fmt = "offset" -> Tok("offset", tok.t)
    [] OTHER -> NoneTok

\* C22: in disponibilite_salle a supplied start or end that
\* parse_limit_to_datetime cannot parse is treated exactly like an absent
\* one: the outcome, the events kept and the answer are those of the call
\* with that bound absent, the invalid-range refusal does not fire, and the
\* bound is not echoed; a successful answer carries range_start / range_end
\* exactly for the bounds that parsed, each equal to the parsed bound.
C22_UnparseableBoundIsAbsent ==
  SalleReasoned =>
    LET ref == salle_reason(ParsedEvents, now, AsAbsent(start), AsAbsent(end), url)
    IN /\ answer = ref.answer
       /\ events = ref.events
       /\ (pc = "raised") = ref.exc
       /\ (pc = "done" /\ (Unparseable(start) \/ Unparseable(end))) => answer.ok
       /\ (pc = "done" /\ answer.ok) =>
            /\ "range_start" \in DOMAIN answer <=> ExpectedBound(start) # NoneTok
            /\ "range_start" \in DOMAIN answer =>
                 answer.range_start = ExpectedBound(start)
            /\ "range_end" \in DOMAIN answer <=> ExpectedBound(end) # NoneTok
            /\ "range_end" \in DOMAIN answer => answer.range_end = ExpectedBound(end)

\* an unparseable start next to an end that parsed, over a day with an event
\* before that end: the event is kept and only range_end is echoed
C22_Witness ==
  /\ SalleReasoned /\ pc = "done" /\ answer.ok
  /\ start = Tok("bad", 0) /\ end = Tok("hm", MaxT)
  /\ events # <<>>
  /\ "range_end" \in DOMAIN answer /\ "range_start" \notin DOMAIN answer

====
